---------------------------- MODULE Spec2Model ----------------------------
(***************************************************************************)
(* State-machine model of video/out/opengl/hwdec_vdpau.c: the VDPAU/GL     *)
(* interop driver (create, reinit, map_frame, unmap, destroy).             *)
(*                                                                         *)
(* Every driver function is an operator on a machine record                *)
(*     s = [priv, env, calls, pc, ret, returned, out]                      *)
(* priv  : the fields of struct priv (hw->priv), alloc = FALSE while       *)
(*         hw->priv is NULL;                                               *)
(* env   : what exists outside the driver: live GL/VDPAU objects, the      *)
(*         registered interop bindings, the device registry (hw->devs),    *)
(*         the device's preemption state;                                  *)
(* calls : the external calls issued by the operation in progress, in      *)
(*         order, each with the handle it was given and a verdict `bad`;   *)
(* pc    : where the session is in its life;                               *)
(* ret   : the return value of the function that ran last; returned: it    *)
(*         has executed a return statement;                                *)
(* out   : the out-parameters of the function that ran last.               *)
(* One action per driver entry point applies the operator to the state.    *)
(***************************************************************************)
EXTENDS Integers, Sequences, FiniteSets

VARIABLES
    priv,   \* struct priv of the session
    env,    \* the GL / VDPAU / registry side
    calls,  \* external calls issued by the most recent operation
    pc,     \* "uninit", "ready", "failed", "destroyed", "crashed", "aborted"
    op,     \* the most recent operation: name, return value, out-parameters
    hist    \* what the host has done so far

vars == <<priv, env, calls, pc, op, hist>>

-----------------------------------------------------------------------------
(* Bounds of the model *)

\* interop registrations that may stand at the same time
MaxBindings == 2
\* number of device preemption events in one run
MaxPreempt == 2

-----------------------------------------------------------------------------
(* Constants of the program *)

NULL == 0

\* vdpau.h: the "no handle" sentinel 0xFFFFFFFF of the 32-bit handle types,
\* written as the 32-bit two's complement value; it is not 0
VDP_INVALID_HANDLE == -1

\* gl_hwdec_vdpau.imgfmt, and the format reinit() announces
IMGFMT_VDPAU == "IMGFMT_VDPAU"
IMGFMT_NV12 == "IMGFMT_NV12"
IMGFMT_NONE == "IMGFMT_NONE"

GL_TEXTURE_RECTANGLE == "GL_TEXTURE_RECTANGLE"
GL_TEXTURE_2D == "GL_TEXTURE_2D"

\* struct mp_image_params, zeroed
ZeroParams == [w |-> 0, h |-> 0, imgfmt |-> IMGFMT_NONE]

\* struct fbotex, zeroed (no GL objects behind it)
ZeroFbo == [w |-> 0, h |-> 0]

\* struct priv as talloc_zero() returns it; alloc = FALSE stands for
\* hw->priv == NULL
ZeroPriv ==
    [alloc               |-> FALSE,
     ctx                 |-> NULL,
     preemption_counter  |-> 0,
     image_params        |-> ZeroParams,
     gl_textures         |-> <<0, 0, 0, 0>>,
     vdpgl_initialized   |-> FALSE,
     vdpgl_surface       |-> 0,
     vdp_surface         |-> 0,
     vdpgl_video_surface |-> 0,
     mixer               |-> NULL,
     mapped              |-> FALSE,
     vao                 |-> FALSE,
     sc                  |-> NULL,
     fbos                |-> <<ZeroFbo, ZeroFbo>>,
     target              |-> "0"]

-----------------------------------------------------------------------------
(* The environment *)

\* an entry of hw->devs that belongs to another subsystem
OtherDevice == [owner |-> "other", ctx |-> 0]

InitEnv ==
    [epoch    |-> 0,             \* preemption events so far
     lost     |-> FALSE,         \* device preempted and not yet recovered
     ctxs     |-> {},            \* live mp_vdpau_ctx
     mixers   |-> {},            \* live mp_vdpau_mixer
     scs      |-> {},            \* live gl_shader_cache
     vaos     |-> 0,             \* gl_vao_init()ed and not uninit
     surfaces |-> {},            \* output surfaces created and not destroyed
     textures |-> {},            \* texture names generated and not deleted
     bindings |-> {},            \* interop surfaces registered, not unregistered
     vdpgl    |-> FALSE,         \* VDPAUInitNV called, VDPAUFiniNV not yet
     registry |-> {OtherDevice}] \* hw->devs

\* the inputs of the host

\* frame parameters the host passes to reinit()
Params ==
    {[w |-> 4, h |-> 2, imgfmt |-> IMGFMT_VDPAU],
     [w |-> 5, h |-> 3, imgfmt |-> IMGFMT_VDPAU],
     [w |-> 4, h |-> 2, imgfmt |-> IMGFMT_NV12]}

\* decoded frames: hw_image->planes[3] is the VdpVideoSurface, w and h are
\* what the device reports for it (an odd width and an even height, unlike
\* any Params, so that both roundings of >> 1 occur)
Images ==
    {[surface |-> 101, w |-> 7, h |-> 6],
     [surface |-> 102, w |-> 7, h |-> 6]}

NoFrame == [interlaced |-> FALSE, planes |-> <<>>]

\* pass: what the conversion pass of map_frame drew, by output plane
NoOut == [params |-> ZeroParams, frame |-> NoFrame, pe |-> 1, pass |-> <<>>]

-----------------------------------------------------------------------------
(* Helpers *)

Running(s) == s.pc \notin {"crashed", "aborted"}

\* an external call, appended to the log: its name f, the handle a it is
\* given, its result r (the handle it creates, a status, 0 for none) and
\* its verdict
Call(s, f, a, r, bad) ==
    [s EXCEPT !.calls = Append(@, [f |-> f, a |-> a, r |-> r, bad |-> bad])]

\* the handle a creating call returns: the smallest one not in use
Fresh(used) ==
    CHOOSE h \in 1..(Cardinality(used) + 1) :
        h \notin used /\ \A k \in 1..(h - 1) : k \in used

Crash(s) == [s EXCEPT !.pc = "crashed"]

\* the value a called function hands back
Ret(s, r) == [s EXCEPT !.ret = r]

\* return r;
Return(s, r) == [s EXCEPT !.ret = r, !.returned = TRUE]

\* the caller goes on after a call has returned
Resume(s) == [s EXCEPT !.returned = FALSE]

\* F applied to the value of v
Bind(v, F(_)) == CHOOSE r \in {F(y) : y \in {v}} : TRUE

\* the next step F of a function body, once v is reached: skipped when the
\* function has returned or the process has crashed or aborted
Then(v, F(_)) ==
    CHOOSE r \in {IF Running(y) /\ ~y.returned THEN F(y) ELSE y : y \in {v}} : TRUE

\* GenTextures(4, ..) hands out four unused names; they are modelled as
\* the n-th (0..3) name of an unused group k >= 1
TexName(k, n) == 4 * k + n

TexGroupsInUse(e) == {k \in 1..(Cardinality(e.textures) + 1) : TexName(k, 0) \in e.textures}

\* x >> n for n in {0, 1}
Shr(x, n) == IF n = 0 THEN x ELSE x \div 2

\* the value of ctx->preemption_counter: 1 after device creation, +1 with
\* every recovery
CtxPreemptionCounter(e) == 1 + e.epoch - (IF e.lost THEN 1 ELSE 0)

-----------------------------------------------------------------------------
(* External calls the driver issues (GL, VDPAU, mpv helpers).  Each one    *)
(* is logged with the handle it was given and a verdict:                   *)
(*   ""           the call is made on an object that exists                *)
(*   "null"       it needs a NULL pointer to be dereferenced               *)
(*   "unacquired" the object was never created / added                     *)
(*   "freed"      the object was already released                          *)
(*   "stale"      the object was created before a device preemption        *)
(*   "uninit"     it needs the interop, or textures, that do not exist     *)
(*   "bound"      textures are deleted that a registration still uses      *)

BindingOf(e, h) == {b \in e.bindings : b.h = h}

BindingBad(e, h) ==
    IF BindingOf(e, h) = {} THEN "freed"
    ELSE IF \E b \in BindingOf(e, h) : b.epoch < e.epoch THEN "stale"
    ELSE ""

\* gl->VDPAUUnmapSurfacesNV(1, &h)
VDPAUUnmapSurfacesNV(s, h) ==
    LET s1 == Call(s, "VDPAUUnmapSurfacesNV", h, 0, BindingBad(s.env, h))
    IN  [s1 EXCEPT !.env.bindings =
            {IF b.h = h THEN [b EXCEPT !.mapped = FALSE] ELSE b : b \in @}]

\* gl->VDPAUUnregisterSurfaceNV(h): only this call ends a registration
VDPAUUnregisterSurfaceNV(s, h) ==
    LET s1 == Call(s, "VDPAUUnregisterSurfaceNV", h, 0, BindingBad(s.env, h))
    IN  [s1 EXCEPT !.env.bindings = {b \in @ : b.h # h}]

\* the bindings registered against one of the (non-zero) texture names
BoundTo(e, names) ==
    {b \in e.bindings : \E n \in 1..4 : names[n] # 0 /\ names[n] \in b.tex}

\* glDeleteTextures(4, names): names that are 0 or unknown are ignored;
\* verdict "bound" when a registration against the textures still stands
glDeleteTextures(s, names) ==
    LET s1 == Call(s, "glDeleteTextures", names[1], 0,
                   IF BoundTo(s.env, names) = {} THEN "" ELSE "bound")
    IN  [s1 EXCEPT !.env.textures = @ \ {names[n] : n \in 1..4}]

SurfaceOf(e, h) == {x \in e.surfaces : x.h = h}

\* vdp->output_surface_destroy(h), called through p->ctx->vdp
output_surface_destroy(s, h) ==
    IF s.priv.ctx = NULL
    THEN Crash(Call(s, "output_surface_destroy", h, 0, "null"))
    ELSE LET bad == IF SurfaceOf(s.env, h) = {} THEN "unacquired"
                    ELSE IF \E x \in SurfaceOf(s.env, h) : x.epoch < s.env.epoch
                         THEN "stale"
                    ELSE ""
             s1 == Call(s, "output_surface_destroy", h, IF bad = "" THEN 0 ELSE -1, bad)
         IN  [s1 EXCEPT !.env.surfaces = {x \in @ : x.h # h}]

\* gl->VDPAUFiniNV()
VDPAUFiniNV(s) ==
    LET s1 == Call(s, "VDPAUFiniNV", 0, 0, IF s.env.vdpgl THEN "" ELSE "uninit")
    IN  [s1 EXCEPT !.env.vdpgl = FALSE]

\* gl->VDPAUInitNV(device, get_proc_address)
VDPAUInitNV(s) ==
    LET s1 == Call(s, "VDPAUInitNV", s.priv.ctx, 0, "")
    IN  [s1 EXCEPT !.env.vdpgl = TRUE]

\* gl->VDPAURegisterVideoSurfaceNV(surface, p->target, 4, p->gl_textures):
\* the handle of the new registration, or 0: the GL refuses when it likes
\* (~regOk), and always when the interop is not initialised or the names
\* are not textures
VDPAURegisterVideoSurfaceNV(s, surface, regOk) ==
    LET names == s.priv.gl_textures
        bad == IF ~s.env.vdpgl \/ \E n \in 1..4 : names[n] \notin s.env.textures
               THEN "uninit" ELSE ""
        h == Fresh({b.h : b \in s.env.bindings})
    IN  IF regOk /\ bad = ""
        THEN [Call(s, "VDPAURegisterVideoSurfaceNV", surface, h, bad)
                 EXCEPT !.ret = h,
                        !.env.bindings = @ \cup
                            {[h |-> h,
                              tex |-> {names[n] : n \in 1..4},
                              access |-> "", mapped |-> FALSE,
                              epoch |-> s.env.epoch]}]
        ELSE Ret(Call(s, "VDPAURegisterVideoSurfaceNV", surface, 0, bad), 0)

\* gl->VDPAUSurfaceAccessNV(h, GL_READ_ONLY)
VDPAUSurfaceAccessNV(s, h) ==
    [Call(s, "VDPAUSurfaceAccessNV", h, 0, BindingBad(s.env, h))
        EXCEPT !.env.bindings =
            {IF b.h = h THEN [b EXCEPT !.access = "GL_READ_ONLY"] ELSE b : b \in @}]

\* gl->VDPAUMapSurfacesNV(1, &h)
VDPAUMapSurfacesNV(s, h) ==
    [Call(s, "VDPAUMapSurfacesNV", h, 0, BindingBad(s.env, h))
        EXCEPT !.env.bindings =
            {IF b.h = h THEN [b EXCEPT !.mapped = TRUE] ELSE b : b \in @}]

\* Use of an object that was released: undefined behaviour, the run either
\* crashes (ub) or goes on.
Freed(s, f, a, ub) ==
    LET s1 == Call(s, f, a, 0, "freed") IN IF ub THEN Crash(s1) ELSE s1

\* mp_vdpau_mixer_destroy(mixer); what it does with NULL is not in this file
mp_vdpau_mixer_destroy(s, m, ub) ==
    IF m = NULL THEN Call(s, "mp_vdpau_mixer_destroy", 0, 0, "")
    ELSE IF m \in s.env.mixers
    THEN [Call(s, "mp_vdpau_mixer_destroy", m, 0, "") EXCEPT !.env.mixers = @ \ {m}]
    ELSE Freed(s, "mp_vdpau_mixer_destroy", m, ub)

DeviceEntry(c) == [owner |-> "vdpau-glx", ctx |-> c]

\* hwdec_devices_remove(hw->devs, &ctx->hwctx)
hwdec_devices_remove(s, c) ==
    LET bad == IF DeviceEntry(c) \in s.env.registry THEN "" ELSE "unacquired"
        s1 == Call(s, "hwdec_devices_remove", c, 0, bad)
    IN  [s1 EXCEPT !.env.registry = @ \ {DeviceEntry(c)}]

\* hwdec_devices_add(hw->devs, &ctx->hwctx)
hwdec_devices_add(s, c) ==
    LET s1 == Call(s, "hwdec_devices_add", c, 0, "")
    IN  [s1 EXCEPT !.env.registry = @ \cup {DeviceEntry(c)}]

\* mp_vdpau_destroy(ctx): NULL is accepted
mp_vdpau_destroy(s, c, ub) ==
    IF c = NULL THEN Call(s, "mp_vdpau_destroy", 0, 0, "")
    ELSE IF c \in s.env.ctxs
    THEN [Call(s, "mp_vdpau_destroy", c, 0, "") EXCEPT !.env.ctxs = @ \ {c}]
    ELSE Freed(s, "mp_vdpau_destroy", c, ub)

\* mp_vdpau_handle_preemption(ctx, &p->preemption_counter):
\*   -1 the device is preempted and could not be recovered
\*    0 a preemption happened since the caller's counter (counter updated)
\*    1 nothing happened
\* recov: whether the device can be recovered now, if it is lost.
mp_vdpau_handle_preemption(s, recov) ==
    LET c0 == IF s.priv.preemption_counter = 0
              THEN CtxPreemptionCounter(s.env)
              ELSE s.priv.preemption_counter
        e1 == IF s.env.lost /\ recov THEN [s.env EXCEPT !.lost = FALSE] ELSE s.env
        r  == IF e1.lost THEN -1
              ELSE IF c0 < CtxPreemptionCounter(e1) THEN 0
              ELSE 1
    IN  [Call(s, "mp_vdpau_handle_preemption", s.priv.ctx, r, "")
            EXCEPT !.env = e1,
                   !.ret = r,
                   !.priv.preemption_counter =
                       IF r = 0 THEN CtxPreemptionCounter(e1) ELSE c0]

-----------------------------------------------------------------------------
(* The driver.  A function body is a pipeline of steps, s0 -> s1 -> ...;   *)
(* Then(v, F) runs step F on the machine record v unless the function has  *)
(* already returned or the process is gone.                                *)

\* unmap() that releases the binding whenever the handle is set and leaves
\* the handle in place
unmap_keeps_handle(s) ==
    LET h == s.priv.vdpgl_video_surface
    IN  IF ~s.priv.alloc THEN Crash(Call(s, "hw->priv", 0, 0, "null"))
        ELSE IF h # 0
        THEN Bind(VDPAUUnmapSurfacesNV(s, h), LAMBDA x :
                  [VDPAUUnregisterSurfaceNV(x, h) EXCEPT !.priv.mapped = FALSE])
        ELSE [s EXCEPT !.priv.mapped = FALSE]

\* unmap() that unregisters the binding before it unmaps it
unmap_unregisters_first(s) ==
    LET h == s.priv.vdpgl_video_surface
    IN  IF ~s.priv.alloc THEN Crash(Call(s, "hw->priv", 0, 0, "null"))
        ELSE IF s.priv.mapped /\ h # 0
        THEN Bind(VDPAUUnregisterSurfaceNV(s, h), LAMBDA x :
                  [VDPAUUnmapSurfacesNV(x, h)
                      EXCEPT !.priv.vdpgl_video_surface = 0,
                             !.priv.mapped = FALSE])
        ELSE [s EXCEPT !.priv.mapped = FALSE]

\* static void unmap(struct gl_hwdec *hw)
unmap(s) ==
    LET h == s.priv.vdpgl_video_surface
    IN  IF ~s.priv.alloc THEN Crash(Call(s, "hw->priv", 0, 0, "null"))
        ELSE IF s.priv.mapped /\ h # 0
        THEN Bind(VDPAUUnmapSurfacesNV(s, h), LAMBDA x :
                  [VDPAUUnregisterSurfaceNV(x, h)
                      EXCEPT !.priv.vdpgl_video_surface = 0,
                             !.priv.mapped = FALSE])
        ELSE [s EXCEPT !.priv.mapped = FALSE]

\* mark_vdpau_objects_uninitialized() that forgets the mapped flag
mark_keeps_mapped(s) ==
    [s EXCEPT !.priv.vdp_surface = VDP_INVALID_HANDLE]

\* static void mark_vdpau_objects_uninitialized(struct gl_hwdec *hw)
mark_vdpau_objects_uninitialized(s) ==
    [s EXCEPT !.priv.vdp_surface = VDP_INVALID_HANDLE,
              !.priv.mapped = FALSE]

\* destroy_objects: if (p->vdpgl_surface) unregister; p->vdpgl_surface = 0
destroy_objects_output_binding(s) ==
    IF s.priv.vdpgl_surface # 0
    THEN [VDPAUUnregisterSurfaceNV(s, s.priv.vdpgl_surface)
             EXCEPT !.priv.vdpgl_surface = 0]
    ELSE [s EXCEPT !.priv.vdpgl_surface = 0]

\* destroy_objects: glDeleteTextures(4, p->gl_textures); memset(..)
destroy_objects_textures(s) ==
    [glDeleteTextures(s, s.priv.gl_textures)
        EXCEPT !.priv.gl_textures = <<0, 0, 0, 0>>]

\* destroy_objects: if (p->vdp_surface != VDP_INVALID_HANDLE) destroy it;
\* p->vdp_surface = VDP_INVALID_HANDLE
destroy_objects_output_surface(s) ==
    IF s.priv.vdp_surface # VDP_INVALID_HANDLE
    THEN Then(output_surface_destroy(s, s.priv.vdp_surface), LAMBDA x :
              [x EXCEPT !.priv.vdp_surface = VDP_INVALID_HANDLE])
    ELSE [s EXCEPT !.priv.vdp_surface = VDP_INVALID_HANDLE]

\* destroy_objects: if (p->vdpgl_initialized) VDPAUFiniNV();
\* p->vdpgl_initialized = false
destroy_objects_fini(s) ==
    IF s.priv.vdpgl_initialized
    THEN [VDPAUFiniNV(s) EXCEPT !.priv.vdpgl_initialized = FALSE]
    ELSE [s EXCEPT !.priv.vdpgl_initialized = FALSE]

\* static void destroy_objects(struct gl_hwdec *hw)
destroy_objects(s) ==
    Then(Then(Then(Then(
        unmap(s),
        destroy_objects_output_binding),
        destroy_objects_textures),
        destroy_objects_output_surface),
        destroy_objects_fini)

\* destroy that leaves the registry alone
destroy_registry_skipped(s) == s

\* destroy: if (p->ctx) hwdec_devices_remove(hw->devs, &p->ctx->hwctx)
destroy_registry(s) ==
    IF s.priv.ctx # NULL THEN hwdec_devices_remove(s, s.priv.ctx) ELSE s

\* static void destroy(struct gl_hwdec *hw)
\* ub: a use of released memory crashes
destroy(s, ub) ==
    Then(Then(Then(
        destroy_objects(s),
        LAMBDA x : mp_vdpau_mixer_destroy(x, x.priv.mixer, ub)),
        destroy_registry),
        LAMBDA x : mp_vdpau_destroy(x, x.priv.ctx, ub))

\* create: p = talloc_zero(..); p->ctx = mp_vdpau_create_device_x11(..)
create_device(s, in) ==
    LET c  == Fresh(s.env.ctxs)
        s1 == [s EXCEPT !.priv = [ZeroPriv EXCEPT !.alloc = TRUE]]
    IN  IF ~in.ctxOk
        THEN Return(Call(s1, "mp_vdpau_create_device_x11", 0, 0, ""), -1)
        ELSE [Call(s1, "mp_vdpau_create_device_x11", 0, c, "")
                 EXCEPT !.priv.ctx = c,
                        !.env.ctxs = @ \cup {c},
                        !.env.lost = in.lostNow,
                        !.env.epoch = IF in.lostNow THEN @ + 1 ELSE @]

\* create: if (mp_vdpau_handle_preemption(..) < 1) return -1
create_preemption(s, in) ==
    Bind(mp_vdpau_handle_preemption(s, in.recov), LAMBDA x :
         IF x.ret < 1 THEN Return(x, -1) ELSE x)

\* create: p->vdp_surface = VDP_INVALID_HANDLE; p->mixer = ..create(..)
create_mixer(s) ==
    LET m == Fresh(s.env.mixers)
    IN  [Call(s, "mp_vdpau_mixer_create", s.priv.ctx, m, "")
            EXCEPT !.priv.vdp_surface = VDP_INVALID_HANDLE,
                   !.priv.mixer = m,
                   !.env.mixers = @ \cup {m}]

\* create: if (hw->probing && emulated) { destroy(hw); return -1; }
create_probe(s, in) ==
    IF in.probing /\ in.emulated
    THEN Then(destroy(s, FALSE), LAMBDA x : Return(x, -1))
    ELSE s

\* create: gl_sc_create, gl_vao_init, hwdec_devices_add; return 0
create_finish(s) ==
    LET sc == Fresh(s.env.scs)
    IN  Bind([Call(s, "gl_sc_create", 0, sc, "")
                 EXCEPT !.priv.sc = sc,
                        !.priv.vao = TRUE,
                        !.env.scs = @ \cup {sc},
                        !.env.vaos = @ + 1],
             LAMBDA x : Return(hwdec_devices_add(x, x.priv.ctx), 0))

\* static int create(struct gl_hwdec *hw)
\* in.display   glXGetCurrentDisplay() returns a display
\* in.cap       gl->mpgl_caps has MPGL_CAP_VDPAU
\* in.ctxOk     mp_vdpau_create_device_x11() returns a context
\* in.lostNow   the device is preempted before its status is first asked
\* in.recov     a lost device can be recovered
\* in.probing   hw->probing
\* in.emulated  mp_vdpau_guess_if_emulated()
create(s, in) ==
    IF ~in.display THEN Return(s, -1)
    ELSE IF ~in.cap THEN Return(s, -1)
    ELSE Then(Then(Then(Then(
        create_device(s, in),
        LAMBDA x : create_preemption(x, in)),
        create_mixer),
        LAMBDA x : create_probe(x, in)),
        create_finish)

\* reinit: assert(params->imgfmt == hw->driver->imgfmt);
\* p->image_params = *params.  par is *params as the callee reads it.
reinit_params(s, params, self) ==
    LET par == IF self THEN s.priv.image_params ELSE params
    IN  IF par.imgfmt # IMGFMT_VDPAU
        THEN [Call(s, "assert", 0, -1, "") EXCEPT !.pc = "aborted", !.out.params = par]
        ELSE [s EXCEPT !.priv.image_params = par, !.out.params = par]

\* reinit: if (mp_vdpau_handle_preemption(..) < 0) return -1
reinit_preemption(s, recov) ==
    Bind(mp_vdpau_handle_preemption(s, recov), LAMBDA x :
         IF x.ret < 0 THEN Return(x, -1) ELSE x)

\* reinit: gl->VDPAUInitNV(..); p->vdpgl_initialized = true
reinit_interop(s) ==
    [VDPAUInitNV(s) EXCEPT !.priv.vdpgl_initialized = TRUE]

\* reinit that goes on when the output surface could not be created
reinit_output_surface_goes_on(s, oscOk) ==
    LET h == Fresh({x.h : x \in s.env.surfaces})
    IN  IF ~oscOk THEN Call(s, "output_surface_create", 0, 0, "")
        ELSE [Call(s, "output_surface_create", 0, h, "")
                 EXCEPT !.priv.vdp_surface = h,
                        !.env.surfaces = @ \cup {[h |-> h, epoch |-> s.env.epoch]}]

\* reinit: vdp->output_surface_create(.., &p->vdp_surface); CHECK_VDP_ERROR
reinit_output_surface(s, oscOk) ==
    LET h == Fresh({x.h : x \in s.env.surfaces})
    IN  IF ~oscOk THEN Return(Call(s, "output_surface_create", 0, 0, ""), -1)
        ELSE [Call(s, "output_surface_create", 0, h, "")
                 EXCEPT !.priv.vdp_surface = h,
                        !.env.surfaces = @ \cup {[h |-> h, epoch |-> s.env.epoch]}]

\* reinit: p->target = GL_TEXTURE_RECTANGLE; gl->GenTextures(4, ..)
reinit_textures(s) ==
    LET t == TexName(Fresh(TexGroupsInUse(s.env)), 0)
    IN  [Call(s, "GenTextures", 0, t, "")
            EXCEPT !.priv.target = GL_TEXTURE_RECTANGLE,
                   !.priv.gl_textures = <<t, t + 1, t + 2, t + 3>>,
                   !.env.textures = @ \cup {t, t + 1, t + 2, t + 3}]

\* reinit that returns 0 without announcing the output format
reinit_finish_keeps_format(s, self) == Return(s, 0)

\* reinit: params->imgfmt = IMGFMT_NV12; return 0.  When params points at
\* p->image_params the store lands there.
reinit_finish(s, self) ==
    Return([s EXCEPT !.out.params.imgfmt = IMGFMT_NV12,
                     !.priv.image_params.imgfmt =
                         IF self THEN IMGFMT_NV12 ELSE @], 0)

\* static int reinit(struct gl_hwdec *hw, struct mp_image_params *params)
\* self   params points at p->image_params (the call made by map_frame)
\* recov  a lost device can be recovered
\* oscOk  vdp->output_surface_create succeeds
\* The result's out.params is *params as the caller sees it afterwards.
reinit(s, params, self, recov, oscOk) ==
    Then(Then(Then(Then(Then(Then(
        destroy_objects(s),
        LAMBDA x : reinit_params(x, params, self)),
        LAMBDA x : reinit_preemption(x, recov)),
        reinit_interop),
        LAMBDA x : reinit_output_surface(x, oscOk)),
        reinit_textures),
        LAMBDA x : reinit_finish(x, self))

\* map_frame: pe = mp_vdpau_handle_preemption(..); if (pe < 1) { mark..;
\* if (pe < 0) return -1; .. }
map_frame_preemption(s, recov) ==
    Bind(mp_vdpau_handle_preemption(s, recov), LAMBDA x :
         IF x.ret < 1
         THEN IF x.ret < 0
              THEN Return([mark_vdpau_objects_uninitialized(x)
                              EXCEPT !.out.pe = x.ret], -1)
              ELSE [mark_vdpau_objects_uninitialized(x) EXCEPT !.out.pe = x.ret]
         ELSE [x EXCEPT !.out.pe = x.ret])

\* map_frame that goes on after a preemption without calling reinit
map_frame_reinit_skipped(s, recov, oscOk) == s

\* map_frame: if (reinit(hw, &p->image_params) < 0) return -1
map_frame_reinit(s, recov, oscOk) ==
    IF s.out.pe < 1
    THEN Bind(reinit(Call(s, "reinit", 0, 0, ""), s.priv.image_params, TRUE,
                     recov, oscOk),
              LAMBDA x : IF ~Running(x) THEN x
                         ELSE IF x.ret < 0
                         THEN Call(x, "reinit:return", 0, x.ret, "")
                         ELSE Resume(Call(x, "reinit:return", 0, x.ret, "")))
    ELSE s

\* map_frame: vdp->video_surface_get_parameters(surface, ..); CHECK_VDP_ERROR
map_frame_get_parameters(s, img, gpOk) ==
    IF gpOk THEN Call(s, "video_surface_get_parameters", img.surface, 0, "")
    ELSE Return(Call(s, "video_surface_get_parameters", img.surface, -1, ""), -1)

\* map_frame: p->vdpgl_video_surface = gl->VDPAURegisterVideoSurfaceNV(..);
\* if (!p->vdpgl_video_surface) return -1
map_frame_register(s, img, regOk) ==
    Bind(VDPAURegisterVideoSurfaceNV(s, img.surface, regOk), LAMBDA x :
         IF x.ret = 0
         THEN Return([x EXCEPT !.priv.vdpgl_video_surface = 0], -1)
         ELSE [x EXCEPT !.priv.vdpgl_video_surface = x.ret])

\* map_frame: gl->VDPAUSurfaceAccessNV(.., GL_READ_ONLY)
map_frame_access(s) == VDPAUSurfaceAccessNV(s, s.priv.vdpgl_video_surface)

\* map_frame: gl->VDPAUMapSurfacesNV(1, &p->vdpgl_video_surface)
map_frame_map(s) == VDPAUMapSurfacesNV(s, s.priv.vdpgl_video_surface)

\* sx[], sy[] of map_frame, by plane (0, 1)
sx(plane) == plane
sy(plane) == plane

\* a fragment shader that takes the rows from the wrong unit
SampledUnit_odd_first(y) == IF (2 * y + 1) % 4 < 2 THEN 1 ELSE 0

\* map_frame: "color = fract(gl_FragCoord.y / 2) < 0.5 ? texture(t0, ..)
\* : texture(t1, ..)": the texture unit output row y is taken from.
\* gl_FragCoord.y of row y is y + 1/2, so gl_FragCoord.y / 2 = (2y + 1) / 4.
SampledUnit(y) == IF (2 * y + 1) % 4 < 2 THEN 0 ELSE 1

\* map_frame: struct vertex va[4] of the plane (0, 1), n in 0..3
Vertex(n, plane, s_w, s_h) ==
    [position |-> <<(n \div 2) * 2 - 1, (n % 2) * 2 - 1>>,
     texcoord |-> <<(n \div 2) * Shr(s_w, sx(plane)),
                    ((n % 2) * Shr(s_h, sy(plane))) \div 2>>]

\* map_frame: one turn of the loop over the output planes (0, 1): the
\* textures bound to the units 0 and 1, the vertices, the viewport, and
\* the unit each row of the viewport is drawn from
ConversionPass(s, plane, s_w, s_h) ==
    [unit     |-> [n \in 0..1 |-> s.priv.gl_textures[plane * 2 + n + 1]],
     va       |-> [n \in 0..3 |-> Vertex(n, plane, s_w, s_h)],
     viewport |-> [w |-> Shr(s_w, sx(plane)), h |-> Shr(s_h, sy(plane))],
     row      |-> [y \in 0..(Shr(s_h, sy(plane)) - 1) |-> SampledUnit(y)]]

\* map_frame: the loop over the two output planes; fbotex_change() sizes
\* p->fbos[plane]
map_frame_convert(s, s_w, s_h) ==
    [s EXCEPT !.priv.fbos =
                  [plane \in 1..2 |->
                      [w |-> Shr(s_w, sx(plane - 1)), h |-> Shr(s_h, sy(plane - 1))]],
              !.out.pass =
                  [plane \in 1..2 |-> ConversionPass(s, plane - 1, s_w, s_h)]]

\* map_frame that sizes the returned planes by the parameters of reinit
map_frame_finish_from_params(s, s_w, s_h) ==
    Return([s EXCEPT !.priv.mapped = TRUE,
                     !.out.frame =
                        [interlaced |-> FALSE,
                         planes |-> [plane \in 1..2 |->
                            [gl_target |-> GL_TEXTURE_2D,
                             tex_w |-> Shr(s.priv.image_params.w, sx(plane - 1)),
                             tex_h |-> Shr(s.priv.image_params.h, sy(plane - 1))]]]], 0)

\* map_frame: p->mapped = true; *out_frame = ..; return 0
map_frame_finish(s, s_w, s_h) ==
    Return([s EXCEPT !.priv.mapped = TRUE,
                     !.out.frame =
                        [interlaced |-> FALSE,
                         planes |-> [plane \in 1..2 |->
                            [gl_target |-> GL_TEXTURE_2D,
                             tex_w |-> Shr(s_w, sx(plane - 1)),
                             tex_h |-> Shr(s_h, sy(plane - 1))]]]], 0)

\* static int map_frame(struct gl_hwdec *hw, struct mp_image *hw_image,
\*                      struct gl_hwdec_frame *out_frame)
\* img    the frame: its surface handle and the size the device reports
\* gpOk   vdp->video_surface_get_parameters succeeds
\* regOk  the GL accepts the registration
map_frame(s, img, recov, oscOk, gpOk, regOk) ==
    Then(Then(Then(Then(Then(Then(Then(
        map_frame_preemption(s, recov),
        LAMBDA x : map_frame_reinit(x, recov, oscOk)),
        LAMBDA x : map_frame_get_parameters(x, img, gpOk)),
        LAMBDA x : map_frame_register(x, img, regOk)),
        map_frame_access),
        map_frame_map),
        LAMBDA x : map_frame_convert(x, img.w, img.h)),
        LAMBDA x : map_frame_finish(x, img.w, img.h))

-----------------------------------------------------------------------------
(* The state machine *)

Init ==
    /\ priv = ZeroPriv
    /\ env = InitEnv
    /\ calls = <<>>
    /\ pc = "uninit"
    /\ op = [name |-> "none", again |-> FALSE, ret |-> 0, out |-> NoOut]
    /\ hist = [created |-> FALSE, wellBehaved |-> TRUE, last |-> "unmap"]

\* the machine record an operation starts from
Cur == [priv |-> priv, env |-> env, calls |-> <<>>, pc |-> pc,
        ret |-> 0, returned |-> FALSE, out |-> NoOut]

\* the state after an operation that ended in machine record s
Commit(s, name, newpc, h) ==
    /\ priv' = s.priv
    /\ env' = s.env
    /\ calls' = s.calls
    /\ pc' = IF Running(s) THEN newpc ELSE s.pc
    /\ op' = [name |-> name, again |-> (op.name = name), ret |-> s.ret,
              out |-> s.out]
    /\ hist' = h

\* What the environment answers during one call.  A call returns at the
\* first step that fails, so one failing step per call gives every outcome:
\* fail names the step that fails ("none": no step fails).
In(fail) ==
    [display  |-> fail # "display",      \* glXGetCurrentDisplay()
     cap      |-> fail # "cap",          \* MPGL_CAP_VDPAU
     ctxOk    |-> fail # "ctx",          \* mp_vdpau_create_device_x11()
     lostNow  |-> fail \in {"lost", "recovered"},
     recov    |-> fail # "lost",         \* a lost device can be recovered
     probing  |-> fail = "emulated",     \* hw->probing
     emulated |-> fail = "emulated",     \* mp_vdpau_guess_if_emulated()
     oscOk    |-> fail # "osc",          \* vdp->output_surface_create
     gpOk     |-> fail # "gp",           \* vdp->video_surface_get_parameters
     regOk    |-> fail # "reg"]          \* VDPAURegisterVideoSurfaceNV

CreateFails == {"none", "display", "cap", "ctx", "lost", "recovered", "emulated"}
ReinitFails == {"none", "lost", "osc"}
MapFrameFails == {"none", "lost", "osc", "gp", "reg"}

\* the host loads the driver
Create ==
    /\ pc = "uninit"
    /\ \E fail \in CreateFails :
        /\ In(fail).lostNow => MaxPreempt > 0
        /\ LET s == create(Cur, In(fail))
           IN  Commit(s, "create", IF s.ret = 0 THEN "ready" ELSE "failed",
                      [hist EXCEPT !.created = (s.ret = 0)])

\* the host calls reinit with new frame parameters
Reinit ==
    /\ pc = "ready"
    /\ \E par \in Params, fail \in ReinitFails :
        Commit(reinit(Cur, par, FALSE, In(fail).recov, In(fail).oscOk),
               "reinit", "ready", hist)

\* the host calls map_frame with a decoded frame
MapFrame ==
    /\ pc = "ready"
    /\ Cardinality(env.bindings) < MaxBindings
    /\ \E img \in Images, fail \in MapFrameFails :
        LET in == In(fail)
            s == map_frame(Cur, img, in.recov, in.oscOk, in.gpOk, in.regOk)
        IN  Commit(s, "map_frame", "ready",
                   [created |-> hist.created,
                    wellBehaved |-> /\ hist.wellBehaved
                                    /\ hist.last = "unmap"
                                    /\ s.ret = 0
                                    /\ s.out.pe = 1,
                    last |-> "map"])

\* the host calls unmap
Unmap ==
    /\ pc = "ready"
    /\ Commit(unmap(Cur), "unmap", "ready",
              [created |-> hist.created,
               wellBehaved |-> hist.wellBehaved /\ hist.last = "map",
               last |-> "unmap"])

\* the host unloads the driver; it may do so after a failed create
Destroy ==
    /\ pc \in {"ready", "failed"}
    /\ \E ub \in BOOLEAN :
        Commit(destroy(Cur, ub), "destroy", "destroyed", hist)

\* the display driver preempts the VDPAU device
Preempt ==
    /\ pc = "ready"
    /\ ~env.lost
    /\ env.epoch < MaxPreempt
    /\ Commit([Cur EXCEPT !.env.lost = TRUE, !.env.epoch = @ + 1],
              "preempt", "ready", [hist EXCEPT !.wellBehaved = FALSE])

Next ==
    \/ Create
    \/ Reinit
    \/ MapFrame
    \/ Unmap
    \/ Destroy
    \/ Preempt

Spec == Init /\ [][Next]_vars

-----------------------------------------------------------------------------
(* Properties *)

\* positions in the log of the most recent operation of the calls named f
Issued(f) == {i \in DOMAIN calls : calls[i].f = f}

\* the binding the session tracks is registered
Tracked(b) == priv.vdpgl_video_surface = b.h

\* C1: at any time at most one video-surface binding is registered and not
\* yet unregistered, and a registered binding is the one the session
\* tracks (none is overwritten and lost), two map_frame calls in a row
\* included.
C1_AtMostOneBinding ==
    /\ Cardinality(env.bindings) <= 1
    /\ \A b \in env.bindings : Tracked(b)

\* C2: when the GL refuses the registration inside map_frame, map_frame
\* fails and leaves the session unmapped, with no video-surface binding
\* registered or mapped, whether it was called unmapped or mapped.
C2_RefusedRegistrationLeavesUnmapped ==
    (/\ op.name = "map_frame"
     /\ \E i \in Issued("VDPAURegisterVideoSurfaceNV") : calls[i].r = 0)
    => /\ op.ret = -1
       /\ ~priv.mapped
       /\ priv.vdpgl_video_surface = 0
       /\ env.bindings = {}

\* C3: destroy called directly after a failed create dereferences no absent
\* session or device context (no crash), issues no release call for a
\* resource that was not acquired and releases nothing twice.
C3_DestroyAfterFailedCreate ==
    (op.name = "destroy" /\ ~hist.created)
    => /\ pc = "destroyed"
       /\ \A i \in DOMAIN calls : calls[i].bad = ""

\* the texture names of the session, as a set
SessionTextures == {priv.gl_textures[n] : n \in 1..4}

\* the most recent operation is a map_frame whose preemption query said
\* "recovered" (0) / "lost for good" (-1)
RecoverableMapFrame == op.name = "map_frame" /\ op.out.pe = 0
FatalMapFrame == op.name = "map_frame" /\ op.out.pe = -1

\* the session's GPU objects were all created by the most recent
\* operation, after log position i0, and exist
FreshObjectsSince(i0) ==
    /\ \E i \in Issued("VDPAUInitNV") :
          /\ i > i0
          /\ \A j \in Issued("VDPAUFiniNV") : j < i
    /\ priv.vdpgl_initialized /\ env.vdpgl
    /\ \E i \in Issued("output_surface_create") :
          /\ i > i0
          /\ calls[i].r = priv.vdp_surface
          /\ [h |-> priv.vdp_surface, epoch |-> env.epoch] \in env.surfaces
    /\ \E i \in Issued("GenTextures") :
          /\ i > i0
          /\ priv.gl_textures = <<calls[i].r, calls[i].r + 1,
                                  calls[i].r + 2, calls[i].r + 3>>
          /\ SessionTextures \subseteq env.textures
          /\ \A j \in Issued("glDeleteTextures") : j < i

\* C4: when map_frame's preemption query reports a recoverable preemption,
\* the internal reinit (with the stored frame parameters) has returned
\* before the registration call is issued (a reinit that stops at its
\* assertion issues none); and when reinit, the parameter
\* query and the registration succeed, map_frame returns 0 with the session
\* mapped on a binding registered against GPU objects (interop, output
\* surface, 4 textures) that were all created after the preemption was seen.
C4_RecoverablePreemptionReinitsFirst ==
    RecoverableMapFrame =>
        /\ Issued("mp_vdpau_handle_preemption") # {}
        /\ calls[1].f = "mp_vdpau_handle_preemption" /\ calls[1].r = 0
        /\ \A i \in Issued("VDPAURegisterVideoSurfaceNV") :
              \E k \in Issued("reinit"), j \in Issued("reinit:return") :
                  1 < k /\ k < j /\ j < i /\ calls[j].r = 0
        /\ (pc = "ready") =>
              /\ Issued("reinit") # {}
              /\ op.out.params.w = priv.image_params.w
              /\ op.out.params.h = priv.image_params.h
        /\ (pc = "ready" /\ op.ret = 0) <=>
              /\ \E j \in Issued("reinit:return") : calls[j].r = 0
              /\ \E i \in Issued("video_surface_get_parameters") : calls[i].r = 0
              /\ \E i \in Issued("VDPAURegisterVideoSurfaceNV") : calls[i].r # 0
        /\ (pc = "ready" /\ op.ret = 0) =>
              /\ priv.mapped
              /\ FreshObjectsSince(1)
              /\ \E b \in env.bindings :
                    /\ Tracked(b) /\ b.mapped
                    /\ b.tex = SessionTextures
                    /\ b.epoch = env.epoch

C4_Witness ==
    /\ RecoverableMapFrame
    /\ op.ret = 0
    /\ priv.mapped
    /\ env.epoch > 0

\* C5: when map_frame's preemption query reports a fatal preemption,
\* map_frame returns -1 without calling reinit, without querying the surface
\* parameters and without registering, setting the access of or mapping any
\* surface, and the session is left with mapped == false.
C5_FatalPreemptionFails ==
    FatalMapFrame =>
        /\ op.ret = -1
        /\ ~priv.mapped
        /\ Issued("reinit") = {}
        /\ Issued("video_surface_get_parameters") = {}
        /\ Issued("VDPAURegisterVideoSurfaceNV") = {}
        /\ Issued("VDPAUSurfaceAccessNV") = {}
        /\ Issued("VDPAUMapSurfacesNV") = {}
        /\ Len(calls) = 1

\* a fatal preemption met while a frame was mapped: the handle of the lost
\* binding is still in the session
C5_Witness ==
    /\ FatalMapFrame
    /\ env.lost
    /\ priv.vdpgl_video_surface # 0
    /\ \E b \in env.bindings : Tracked(b) /\ b.mapped

\* C6: in every reachable state, mapped == true implies that the session's
\* video-surface handle is non-null and names a binding that is still
\* registered.
C6_MappedImpliesBinding ==
    priv.mapped =>
        /\ priv.vdpgl_video_surface # 0
        /\ BindingOf(env, priv.vdpgl_video_surface) # {}

\* C7: the 4 textures are never deleted while a binding registered against
\* them is still registered (reinit, implicit reinit after a preemption,
\* destroy).
C7_NoDeleteWhileRegistered ==
    \A i \in Issued("glDeleteTextures") : calls[i].bad # "bound"

\* C8: after destroy on a session that was created successfully and used by
\* a well-behaved host (reinit at will, successful map_frame and unmap
\* strictly alternating, no preemption), everything the session acquired
\* has been released, and no release was wrong: binding, textures, output
\* surface, interop, the two render targets, shader cache and vertex array,
\* mixer, registry entry, device context.
C8_DestroyReleasesEverything ==
    (pc = "destroyed" /\ hist.created /\ hist.wellBehaved) =>
        /\ env.bindings = {}
        /\ env.textures = {}
        /\ env.surfaces = {}
        /\ ~env.vdpgl
        /\ priv.fbos = <<ZeroFbo, ZeroFbo>>
        /\ env.scs = {}
        /\ env.vaos = 0
        /\ env.mixers = {}
        /\ env.registry = {OtherDevice}
        /\ env.ctxs = {}
        /\ \A i \in DOMAIN calls : calls[i].bad = ""

\* C9: unmap called right after unmap changes nothing in the session or on
\* the GPU side and issues no call (no unmap, no unregister).
C9_UnmapIdempotent ==
    [][(op.name = "unmap" /\ Unmap)
        => (priv' = priv /\ env' = env /\ calls' = <<>>)]_vars

\* two unmaps in a row on a configured session
C9_Witness ==
    /\ op.name = "unmap"
    /\ op.again
    /\ priv.vdpgl_initialized
    /\ calls = <<>>

\* the calls the teardown uses to release GPU-side objects
ReleaseCalls ==
    {"VDPAUUnmapSurfacesNV", "VDPAUUnregisterSurfaceNV",
     "output_surface_destroy", "VDPAUFiniNV"}

AcquireCalls == {"VDPAUInitNV", "output_surface_create", "GenTextures"}

\* C10: the teardown reinit starts with is complete and idempotent.  After
\* a reinit by the host, in whatever state it was called, no GPU-side
\* object of the previous configuration that the device still holds is
\* left (bindings, textures, output surfaces), every release call was a
\* good one and came before anything was acquired; and destroy_objects run
\* twice in a row issues no release call the second time and changes no
\* field.
C10_TeardownCompleteIdempotent ==
    /\ (op.name = "reinit" /\ pc = "ready") =>
          /\ \A b \in env.bindings : b.epoch < env.epoch
          /\ env.textures \subseteq SessionTextures
          /\ \A x \in env.surfaces :
                x.epoch < env.epoch \/ x.h = priv.vdp_surface
          /\ \A i \in DOMAIN calls :
                calls[i].f \in ReleaseCalls =>
                    /\ calls[i].bad \in {"", "stale"}
                    /\ \A j \in DOMAIN calls :
                          calls[j].f \in AcquireCalls => i < j
    /\ (pc = "ready") =>
          LET once == destroy_objects(Cur)
              twice == destroy_objects([once EXCEPT !.calls = <<>>])
          IN  /\ twice.priv = once.priv
              /\ twice.env = once.env
              /\ \A i \in DOMAIN twice.calls : twice.calls[i].f \notin ReleaseCalls

\* the most recent operation ran reinit to its return 0: the host's call, or
\* the call map_frame makes on &p->image_params
ReinitReturnedOk ==
    /\ pc = "ready"
    /\ \/ op.name = "reinit" /\ op.ret = 0
       \/ /\ op.name = "map_frame"
          /\ \E j \in Issued("reinit:return") : calls[j].r = 0

\* C11: after every reinit that returns 0, *params carries IMGFMT_NV12,
\* whatever width and height were passed in; for the reinit map_frame runs,
\* params is the session's stored p->image_params.
C11_ReinitAnnouncesNV12 ==
    ReinitReturnedOk =>
        /\ op.out.params.imgfmt = IMGFMT_NV12
        /\ op.out.params.w = priv.image_params.w
        /\ op.out.params.h = priv.image_params.h
        /\ op.name = "map_frame" => priv.image_params.imgfmt = IMGFMT_NV12

\* an implicit reinit on stored parameters of the larger size has returned 0
C11_Witness ==
    /\ ReinitReturnedOk
    /\ op.name = "map_frame"
    /\ op.out.params = [w |-> 5, h |-> 3, imgfmt |-> IMGFMT_NV12]

\* the frames whose surface the most recent operation asked the device about
FramesQueried ==
    {img \in Images :
        \E i \in Issued("video_surface_get_parameters") : calls[i].a = img.surface}

\* C12: after every map_frame that returns 0 the returned frame is not
\* interlaced and has exactly two planes, sized by the width w and height h
\* the device reports for the surface: (w, h) and (w / 2, h / 2) rounded
\* down, exactly half where w or h is even.
C12_PlaneDimensions ==
    (op.name = "map_frame" /\ pc = "ready" /\ op.ret = 0) =>
        /\ FramesQueried # {}
        /\ \A img \in FramesQueried :
            /\ op.out.frame.interlaced = FALSE
            /\ DOMAIN op.out.frame.planes = 1..2
            /\ op.out.frame.planes[1].tex_w = img.w
            /\ op.out.frame.planes[1].tex_h = img.h
            /\ op.out.frame.planes[2].tex_w = img.w \div 2
            /\ op.out.frame.planes[2].tex_h = img.h \div 2
            /\ img.w % 2 = 0 => 2 * op.out.frame.planes[2].tex_w = img.w
            /\ img.h % 2 = 0 => 2 * op.out.frame.planes[2].tex_h = img.h
            /\ img.w % 2 = 1 => 2 * op.out.frame.planes[2].tex_w = img.w - 1

\* a frame was mapped whose reported size (odd width, even height) differs
\* from the parameters of the last reinit
C12_Witness ==
    /\ op.name = "map_frame" /\ pc = "ready" /\ op.ret = 0
    /\ \E img \in FramesQueried :
          /\ img.w % 2 = 1 /\ img.h % 2 = 0
          /\ img.w # priv.image_params.w
          /\ img.h # priv.image_params.h
          /\ op.out.frame.planes[2].tex_h = img.h \div 2

\* C13: the session's device handle is in hw->devs exactly from a
\* successful create until destroy.  It is added once and only by a create
\* that returns 0; a failing create (the rejection while probing, which runs
\* destroy, included) and a destroy after it leave the registry as it was;
\* destroy takes out the session's own entry only; the entries of others
\* are never touched.
C13_RegistryFrame ==
    /\ OtherDevice \in env.registry
    /\ env.registry \subseteq {OtherDevice, DeviceEntry(priv.ctx)}
    /\ (env.registry # {OtherDevice}) <=> (hist.created /\ pc # "destroyed")
    /\ Issued("hwdec_devices_add") # {} =>
          /\ op.name = "create" /\ op.ret = 0
          /\ Cardinality(Issued("hwdec_devices_add")) = 1
          /\ \A i \in Issued("hwdec_devices_add") : calls[i].a = priv.ctx
    /\ (op.name = "create" /\ op.ret = 0) => Issued("hwdec_devices_add") # {}
    /\ \A i \in Issued("hwdec_devices_remove") :
          /\ calls[i].a = priv.ctx
          /\ op.name = "destroy" \/ (op.name = "create" /\ op.ret = -1)

\* destroy has taken the entry of a created session out of the registry
C13_Witness ==
    /\ pc = "destroyed"
    /\ hist.created
    /\ env.registry = {OtherDevice}
    /\ \E i \in Issued("hwdec_devices_remove") : calls[i].bad = ""

\* C14: in the conversion pass, for each output plane p in {0, 1} and each
\* texture unit n in {0, 1}, unit n is bound to the session texture of index
\* 2p + n; output row y is taken from unit y mod 2 (even rows t0, odd rows
\* t1); and the texture coordinates of each unit run over the full width and
\* over half the plane's height.
C14_RowParitySampling ==
    (op.name = "map_frame" /\ pc = "ready" /\ op.ret = 0) =>
        /\ DOMAIN op.out.pass = 1..2
        /\ \A p \in 0..1 :
            LET pass == op.out.pass[p + 1]
                d_w == op.out.frame.planes[p + 1].tex_w
                d_h == op.out.frame.planes[p + 1].tex_h
            IN  /\ \A n \in 0..1 :
                      /\ pass.unit[n] = priv.gl_textures[2 * p + n + 1]
                      /\ pass.unit[n] \in env.textures
                /\ pass.viewport = [w |-> d_w, h |-> d_h]
                /\ DOMAIN pass.row = 0..(d_h - 1)
                /\ \A y \in DOMAIN pass.row : pass.row[y] = y % 2
                /\ {pass.va[n].texcoord[2] : n \in 0..3} = {0, d_h \div 2}
                /\ {pass.va[n].texcoord[1] : n \in 0..3} = {0, d_w}
                /\ {pass.va[n].position : n \in 0..3} =
                      {<<-1, -1>>, <<-1, 1>>, <<1, -1>>, <<1, 1>>}

\* a conversion pass has drawn a plane of several rows, even and odd
C14_Witness ==
    /\ op.name = "map_frame" /\ pc = "ready" /\ op.ret = 0
    /\ \E p \in 1..2 : \E y0, y1 \in DOMAIN op.out.pass[p].row :
          /\ y0 % 2 = 0 /\ op.out.pass[p].row[y0] = 0
          /\ y1 % 2 = 1 /\ op.out.pass[p].row[y1] = 1
          /\ y1 > 2

\* C15: once the host has passed parameters to reinit (p->image_params is
\* set), the assertion of reinit holds on every reinit call map_frame makes:
\* whatever the number of recoverable preemptions, the stored p->image_params
\* that map_frame passes still carry the input format the host passed to
\* reinit (they are never seen with another format), and width and height
\* are those of the call.
C15_StoredParamsKeepInputFormat ==
    /\ (op.name = "map_frame" /\ priv.image_params # ZeroParams) => pc # "aborted"
    /\ priv.image_params # ZeroParams => priv.image_params.imgfmt = IMGFMT_VDPAU
    /\ (op.name = "map_frame" /\ Issued("reinit") # {}) =>
          /\ op.out.params.w = priv.image_params.w
          /\ op.out.params.h = priv.image_params.h

\* C16: whenever map_frame issues the registration call the session is
\* configured: the interop is initialised and the 4 names passed are live
\* textures of the last successful reinit; also after a failed reinit and
\* before any reinit.
C16_RegisterOnlyWhenConfigured ==
    op.name = "map_frame" =>
        \A i \in Issued("VDPAURegisterVideoSurfaceNV") : calls[i].bad # "uninit"

\* the most recent operation is a map_frame that returned 0
MapFrameReturnedOk == op.name = "map_frame" /\ pc = "ready" /\ op.ret = 0

\* the log holds exactly one call f, made on handle h with a good verdict
IssuedOnceOn(log, f, h) ==
    /\ Cardinality({i \in DOMAIN log : log[i].f = f}) = 1
    /\ \A i \in DOMAIN log : log[i].f = f => (log[i].a = h /\ log[i].bad = "")

\* C17: for every successful map_frame followed by unmap, the binding that
\* map_frame registered was given read-only access and mapped exactly once
\* (in that order, after its registration), is unmapped exactly once by
\* unmap and only then unregistered exactly once; after unmap mapped is
\* false and the handle 0, and the textures, the output surface and the
\* interop flag are as before unmap.
C17_MapThenUnmapOrder ==
    [][(MapFrameReturnedOk /\ Unmap) =>
        LET h == priv.vdpgl_video_surface
        IN  /\ h # 0
            /\ \E i \in Issued("VDPAURegisterVideoSurfaceNV") :
                  /\ calls[i].r = h
                  /\ Issued("VDPAURegisterVideoSurfaceNV") = {i}
                  /\ Issued("VDPAUSurfaceAccessNV") = {i + 1}
                  /\ Issued("VDPAUMapSurfacesNV") = {i + 2}
            /\ IssuedOnceOn(calls, "VDPAUSurfaceAccessNV", h)
            /\ IssuedOnceOn(calls, "VDPAUMapSurfacesNV", h)
            /\ \E b \in env.bindings :
                  b.h = h /\ b.mapped /\ b.access = "GL_READ_ONLY"
            /\ Len(calls') = 2
            /\ calls'[1].f = "VDPAUUnmapSurfacesNV"
            /\ calls'[2].f = "VDPAUUnregisterSurfaceNV"
            /\ IssuedOnceOn(calls', "VDPAUUnmapSurfacesNV", h)
            /\ IssuedOnceOn(calls', "VDPAUUnregisterSurfaceNV", h)
            /\ env'.bindings = {b \in env.bindings : b.h # h}
            /\ ~priv'.mapped
            /\ priv'.vdpgl_video_surface = 0
            /\ priv'.gl_textures = priv.gl_textures
            /\ priv'.vdp_surface = priv.vdp_surface
            /\ priv'.vdpgl_initialized = priv.vdpgl_initialized
            /\ env'.textures = env.textures
            /\ env'.surfaces = env.surfaces
            /\ env'.vdpgl = env.vdpgl]_vars

\* unmap has released the binding of the map_frame before it
C17_Witness ==
    /\ op.name = "unmap"
    /\ hist.last = "unmap"
    /\ Len(calls) = 2
    /\ calls[1].f = "VDPAUUnmapSurfacesNV" /\ calls[1].bad = ""
    /\ calls[2].f = "VDPAUUnregisterSurfaceNV" /\ calls[2].bad = ""
    /\ ~priv.mapped
    /\ priv.vdpgl_initialized
    /\ env.bindings = {}

\* C18: after a preemption no call is issued on an object created before
\* it: no output_surface_destroy on the old output surface, no unmap or
\* unregister on the old binding, whoever sees the preemption first
\* (map_frame, reinit called by the host, destroy).
C18_NoCallOnStaleObjects ==
    \A i \in DOMAIN calls :
        calls[i].f \in {"output_surface_destroy", "VDPAUUnmapSurfacesNV",
                        "VDPAUUnregisterSurfaceNV"}
        => calls[i].bad # "stale"

\* the operation of this step issued call f with result r
StepIssued(f, r) == \E i \in DOMAIN calls' : calls'[i].f = f /\ calls'[i].r = r

StepIssuedAny(f) == \E i \in DOMAIN calls' : calls'[i].f = f

\* this step is an operation called name
StepOf(name) == op'.name = name

\* C19: a failing decode-API call fails the operation, with no retry and
\* nothing done after it.  When video_surface_get_parameters fails,
\* map_frame returns -1, issues no register, access or map call, and leaves
\* the mapped flag and the binding handle as they were after the preemption
\* check.  When output_surface_create fails, reinit (called by the host or
\* by map_frame) returns -1, leaves params->imgfmt as it was, generates no
\* textures and leaves the session unmapped.
C19_DecodeApiFailurePropagates ==
    [][/\ (StepOf("map_frame") /\ StepIssued("video_surface_get_parameters", -1)) =>
            /\ op'.ret = -1 /\ pc' = "ready"
            /\ Cardinality({i \in DOMAIN calls' :
                   calls'[i].f = "video_surface_get_parameters"}) = 1
            /\ ~StepIssuedAny("VDPAURegisterVideoSurfaceNV")
            /\ ~StepIssuedAny("VDPAUSurfaceAccessNV")
            /\ ~StepIssuedAny("VDPAUMapSurfacesNV")
            /\ priv'.mapped = (priv.mapped /\ op'.out.pe = 1)
            /\ priv'.vdpgl_video_surface = priv.vdpgl_video_surface
            /\ env'.bindings = env.bindings
       /\ ((StepOf("reinit") \/ StepOf("map_frame"))
              /\ StepIssued("output_surface_create", 0)) =>
            /\ op'.ret = -1 /\ pc' = "ready"
            /\ Cardinality({i \in DOMAIN calls' :
                   calls'[i].f = "output_surface_create"}) = 1
            /\ op'.out.params.imgfmt = IMGFMT_VDPAU
            /\ priv'.image_params.imgfmt = IMGFMT_VDPAU
            /\ ~StepIssuedAny("GenTextures")
            /\ priv'.gl_textures = <<0, 0, 0, 0>>
            /\ env'.textures \subseteq env.textures
            /\ ~priv'.mapped
            /\ ~StepIssuedAny("VDPAURegisterVideoSurfaceNV")
            /\ ~StepIssuedAny("VDPAUMapSurfacesNV")]_vars

\* a parameter query has failed in a map_frame called while a frame was
\* mapped, with the session's textures in place
C19_Witness ==
    /\ op.name = "map_frame" /\ op.ret = -1
    /\ \E i \in Issued("video_surface_get_parameters") : calls[i].r = -1
    /\ priv.mapped
    /\ priv.vdpgl_video_surface # 0
    /\ SessionTextures \subseteq env.textures

=============================================================================
